---- MODULE Spec2Model ----
(***************************************************************************)
(* Model of src/four_in_a_row.py, the console game 'Four in a Row'.        *)
(*                                                                         *)
(* Six specifications share the definitions of the functions:              *)
(*   Spec        the game loop of main()                                   *)
(*   FairSpec    Spec with players who do not choose full columns for ever *)
(*   SpecTurns   the same loop with each drop_piece call recorded in last, *)
(*               up to MaxTurns accepted moves                             *)
(*   SpecInput   SpecTurns with the entries typed at ask_column's prompt   *)
(*   SpecDrop    any sequence of drop_piece calls on a fresh board         *)
(*   SpecBoards  one call of drop_piece, has_winner or is_draw on an       *)
(*               arbitrary board (cells need not obey gravity)             *)
(*                                                                         *)
(* The board of the source is 6 x 7.  ROWS and COLUMNS are scaled down     *)
(* here so that TLC can enumerate every game to its end; the run length    *)
(* of four is the source's (range(1, 4) in check_direction).               *)
(***************************************************************************)
EXTENDS Integers, FiniteSets, Sequences, TLC

\* ---------------------------------------------------------------- bounds
ROWS == 4

COLUMNS == 4

\* SpecTurns: the number of accepted moves of a recorded game
MaxTurns == 8

\* SpecDrop: the number of successful drop_piece calls in a sequence
MaxDrops == 6

\* SpecBoards: the number of non-Empty cells of an input board
MaxTokens == 4

\* ------------------------------------------------------------- constants
EMPTY == " "

PLAYER_TOKENS == <<"X", "O">>

Tokens == {PLAYER_TOKENS[1], PLAYER_TOKENS[2]}

RowRange == 0 .. (ROWS - 1)

ColRange == 0 .. (COLUMNS - 1)

\* the value of last.column when the call has no column
NoColumn == 0 - 100

VARIABLES
    board,                  \* main: board, the grid board[row][column]
    current_player_index,   \* main: index into PLAYER_TOKENS, 0 or 1
    state,                  \* main: where the loop is: "InProgress", "Won", "Drawn"
    last                    \* the latest call of drop_piece, has_winner or is_draw
                            \* and what it returned (not kept by Spec)

vars == <<board, current_player_index, state, last>>

NoCall == [op |-> "none", column |-> NoColumn, token |-> EMPTY, result |-> FALSE]

\* ------------------------------------------------------------- functions
create_board == [r \in RowRange |-> [c \in ColRange |-> EMPTY]]

\* the loop of drop_piece from `row` upward: the first Empty cell takes the token
RECURSIVE drop_scan(_, _, _, _)
drop_scan(b, column, token, row) ==
    IF row < 0
    THEN [ok |-> FALSE, board |-> b]
    ELSE IF b[row][column] = EMPTY
         THEN [ok |-> TRUE, board |-> [b EXCEPT ![row][column] = token]]
         ELSE drop_scan(b, column, token, row - 1)

\* Python's list indexing: a negative index counts from the end
PyIndex(i, n) == IF i < 0 THEN n + i ELSE i

\* drop_piece without the test column < 0: board[row][-1] is the last column
drop_piece_no_lower_check(b, column, token) ==
    IF column >= COLUMNS
    THEN [ok |-> FALSE, board |-> b]
    ELSE drop_scan(b, PyIndex(column, COLUMNS), token, ROWS - 1)

\* drop_piece scanning from the top row down
RECURSIVE drop_scan_down(_, _, _, _)
drop_scan_down(b, column, token, row) ==
    IF row >= ROWS
    THEN [ok |-> FALSE, board |-> b]
    ELSE IF b[row][column] = EMPTY
         THEN [ok |-> TRUE, board |-> [b EXCEPT ![row][column] = token]]
         ELSE drop_scan_down(b, column, token, row + 1)

drop_piece_top_down(b, column, token) ==
    IF column < 0 \/ column >= COLUMNS
    THEN [ok |-> FALSE, board |-> b]
    ELSE drop_scan_down(b, column, token, 0)

\* drop_piece with the loop ending one row early (range(ROWS - 1, 0, -1)): row 0
\* is never used
RECURSIVE drop_scan_skip_top(_, _, _, _)
drop_scan_skip_top(b, column, token, row) ==
    IF row < 1
    THEN [ok |-> FALSE, board |-> b]
    ELSE IF b[row][column] = EMPTY
         THEN [ok |-> TRUE, board |-> [b EXCEPT ![row][column] = token]]
         ELSE drop_scan_skip_top(b, column, token, row - 1)

drop_piece_skip_top(b, column, token) ==
    IF column < 0 \/ column >= COLUMNS
    THEN [ok |-> FALSE, board |-> b]
    ELSE drop_scan_skip_top(b, column, token, ROWS - 1)

\* drop_piece testing `!= token` where it should test `== EMPTY`: the first cell
\* from the bottom that does not hold the token takes it, also the opponent's
RECURSIVE drop_scan_overwrite(_, _, _, _)
drop_scan_overwrite(b, column, token, row) ==
    IF row < 0
    THEN [ok |-> FALSE, board |-> b]
    ELSE IF b[row][column] # token
         THEN [ok |-> TRUE, board |-> [b EXCEPT ![row][column] = token]]
         ELSE drop_scan_overwrite(b, column, token, row - 1)

drop_piece_overwrite(b, column, token) ==
    IF column < 0 \/ column >= COLUMNS
    THEN [ok |-> FALSE, board |-> b]
    ELSE drop_scan_overwrite(b, column, token, ROWS - 1)

drop_piece(b, column, token) ==
    IF column < 0 \/ column >= COLUMNS
    THEN [ok |-> FALSE, board |-> b]
    ELSE drop_scan(b, column, token, ROWS - 1)

\* check_direction testing only the upper bounds: an index of -1 is Python's
\* last row or column
check_direction_wrap(b, start_row, start_col, delta_row, delta_col) ==
    LET token == b[start_row][start_col]
    IN  IF token = EMPTY
        THEN FALSE
        ELSE \A step \in 1 .. 3 :
                LET r == start_row + step * delta_row
                    c == start_col + step * delta_col
                IN  /\ 0 - ROWS <= r /\ r < ROWS /\ 0 - COLUMNS <= c /\ c < COLUMNS
                    /\ b[PyIndex(r, ROWS)][PyIndex(c, COLUMNS)] = token

\* the loop over step returns False at the first cell that is out of bounds or
\* holds another value, True when all three steps pass
check_direction(b, start_row, start_col, delta_row, delta_col) ==
    LET token == b[start_row][start_col]
    IN  IF token = EMPTY
        THEN FALSE
        ELSE \A step \in 1 .. 3 :
                LET r == start_row + step * delta_row
                    c == start_col + step * delta_col
                IN  /\ 0 <= r /\ r < ROWS /\ 0 <= c /\ c < COLUMNS
                    /\ b[r][c] = token

\* has_winner's tuple of directions
directions == <<
    <<0, 1>>,    \* horizontal
    <<1, 0>>,    \* vertical
    <<1, 1>>,    \* main diagonal
    <<1, 0 - 1>> \* anti diagonal
    >>

\* the three nested loops return True at the first hit, False when none hits
has_winner(b) ==
    \E row \in RowRange : \E col \in ColRange : \E d \in 1 .. Len(directions) :
        check_direction(b, row, col, directions[d][1], directions[d][2])

\* is_draw looking at the bottom row, board[ROWS - 1], instead of the top row
is_draw_bottom_row(b) == \A col \in ColRange : b[ROWS - 1][col] # EMPTY

\* all(board[0][col] != EMPTY for col in range(COLUMNS))
is_draw(b) == \A col \in ColRange : b[0][col] # EMPTY

\* lines 101-109 of main: what the loop does with the board after an accepted
\* move; the draw test first gives Drawn on a full board that holds a line
Outcome_draw_first(b) ==
    IF is_draw(b) THEN "Drawn"
    ELSE IF has_winner(b) THEN "Won"
    ELSE "InProgress"

Outcome(b) ==
    IF has_winner(b) THEN "Won"
    ELSE IF is_draw(b) THEN "Drawn"
    ELSE "InProgress"

\* ask_column: the entry is a number n, the return value is n - 1, and only a
\* value in range(COLUMNS) is returned; any other entry is asked again
NumericEntries == (0 - 1) .. (COLUMNS + 2)

ask_column_returns == {n - 1 : n \in {m \in NumericEntries : 0 <= m - 1 /\ m - 1 < COLUMNS}}

\* ------------------------------------------------- Spec: the loop of main
Init ==
    /\ board = create_board
    /\ current_player_index = 0
    /\ state = "InProgress"
    /\ last = NoCall

\* main_iteration without `continue` after a refused drop: the loop goes on to
\* the tests and to the change of player
main_iteration_no_continue(column) ==
    /\ state = "InProgress"
    /\ LET token == PLAYER_TOKENS[current_player_index + 1]
           d == drop_piece(board, column, token)
       IN  /\ board' = d.board
           /\ state' = Outcome(board')
           /\ current_player_index' =
                  IF state' = "InProgress"
                  THEN 1 - current_player_index
                  ELSE current_player_index

\* main_iteration without the `break`s: the outcome is printed and the loop
\* goes on with the other player
main_iteration_no_break(column) ==
    /\ LET token == PLAYER_TOKENS[current_player_index + 1]
           d == drop_piece(board, column, token)
       IN  IF ~d.ok
           THEN UNCHANGED <<board, current_player_index, state>>
           ELSE /\ board' = d.board
                /\ state' = Outcome(board')
                /\ current_player_index' = 1 - current_player_index

\* main_iteration changing the player right after the drop, before the tests:
\* at `break` current_player_index is the loser's
main_iteration_flip_first(column) ==
    /\ state = "InProgress"
    /\ LET token == PLAYER_TOKENS[current_player_index + 1]
           d == drop_piece(board, column, token)
       IN  IF ~d.ok
           THEN UNCHANGED <<board, current_player_index, state>>
           ELSE /\ board' = d.board
                /\ state' = Outcome(board')
                /\ current_player_index' = 1 - current_player_index

\* one iteration of `while True`, with `column` the value ask_column returned;
\* `continue` (line 99) and the two `break`s leave current_player_index alone
main_iteration(column) ==
    /\ state = "InProgress"
    /\ LET token == PLAYER_TOKENS[current_player_index + 1]
           d == drop_piece(board, column, token)
       IN  IF ~d.ok
           THEN UNCHANGED <<board, current_player_index, state>>
           ELSE /\ board' = d.board
                /\ state' = Outcome(board')
                /\ current_player_index' =
                       IF state' = "InProgress"
                       THEN 1 - current_player_index
                       ELSE current_player_index

Turn(column) ==
    /\ main_iteration(column)
    /\ UNCHANGED last

Next == \E column \in ask_column_returns : Turn(column)

Spec == Init /\ [][Next]_vars

\* ------------------------------------------------------------- helpers
Positions == RowRange \X ColRange

NonEmpty(b) == {p \in Positions : b[p[1]][p[2]] # EMPTY}

CountOf(b, t) == Cardinality({p \in Positions : b[p[1]][p[2]] = t})

DropRecord(column, token, ok) ==
    [op |-> "drop_piece", column |-> column, token |-> token, result |-> ok]

\* -------------------------------- SpecTurns: the loop, each call recorded
TurnRecorded(column) ==
    /\ main_iteration(column)
    /\ Cardinality(NonEmpty(board')) <= MaxTurns
    /\ LET token == PLAYER_TOKENS[current_player_index + 1]
       IN  last' = DropRecord(column, token, drop_piece(board, column, token).ok)

NextTurns == \E column \in ask_column_returns : TurnRecorded(column)

SpecTurns == Init /\ [][NextTurns]_vars

\* ------------------------- SpecDrop: any sequence of calls of drop_piece
DropColumns == (0 - 2) .. (COLUMNS + 1)

DropCall(column, token) ==
    LET d == drop_piece(board, column, token)
    IN  /\ Cardinality(NonEmpty(d.board)) <= MaxDrops
        /\ board' = d.board
        /\ last' = DropRecord(column, token, d.ok)
        /\ UNCHANGED <<current_player_index, state>>

NextDrop == \E column \in DropColumns : \E token \in Tokens : DropCall(column, token)

SpecDrop == Init /\ [][NextDrop]_vars

\* --------------------------- SpecBoards: one call on an arbitrary board
\* the boards with at most MaxTokens non-Empty cells, placed anywhere
BoardOf(S, f) ==
    [r \in RowRange |-> [c \in ColRange |-> IF <<r, c>> \in S THEN f[<<r, c>>] ELSE EMPTY]]

RECURSIVE SetsUpTo(_)
SetsUpTo(k) ==
    IF k = 0
    THEN {{}}
    ELSE LET smaller == SetsUpTo(k - 1)
         IN  smaller \cup {T \cup {p} : T \in smaller, p \in Positions}

InitBoards ==
    /\ \E S \in SetsUpTo(MaxTokens) :
           \E f \in [S -> Tokens] : board = BoardOf(S, f)
    /\ current_player_index = 0
    /\ state = "InProgress"
    /\ last = NoCall

CallDropPiece(column, token) ==
    /\ last.op = "none"
    /\ board' = drop_piece(board, column, token).board
    /\ last' = DropRecord(column, token, drop_piece(board, column, token).ok)
    /\ UNCHANGED <<current_player_index, state>>

CallHasWinner ==
    /\ last.op = "none"
    /\ last' = [op |-> "has_winner", column |-> NoColumn, token |-> EMPTY,
                result |-> has_winner(board)]
    /\ UNCHANGED <<board, current_player_index, state>>

CallIsDraw ==
    /\ last.op = "none"
    /\ last' = [op |-> "is_draw", column |-> NoColumn, token |-> EMPTY,
                result |-> is_draw(board)]
    /\ UNCHANGED <<board, current_player_index, state>>

NextBoards ==
    \/ \E column \in DropColumns : \E token \in Tokens : CallDropPiece(column, token)
    \/ CallHasWinner
    \/ CallIsDraw

SpecBoards == InitBoards /\ [][NextBoards]_vars

\* =================================================================== C1
\* the eight directions of a line through a cell
AllDirections == {d \in {0 - 1, 0, 1} \X {0 - 1, 0, 1} : d # <<0, 0>>}

InBounds(r, c) == 0 <= r /\ r < ROWS /\ 0 <= c /\ c < COLUMNS

\* the four cells from p along d, in bounds or not
LineCells(p, d) == {<<p[1] + k * d[1], p[2] + k * d[2]>> : k \in 0 .. 3}

\* the sets of four consecutive in-bounds cells along a line of the grid
Lines == {L \in {LineCells(p, d) : p \in Positions, d \in AllDirections} :
             \A q \in L : InBounds(q[1], q[2])}

\* the lines of b whose four cells hold the same token
FourRuns(b) == {L \in Lines : \E t \in Tokens : \A q \in L : b[q[1]][q[2]] = t}

\* has_winner scanning all eight directions
has_winner_eight(b) ==
    \E row \in RowRange : \E col \in ColRange : \E d \in AllDirections :
        check_direction(b, row, col, d[1], d[2])

Emptied(b, q) == [b EXCEPT ![q[1]][q[2]] = EMPTY]

EmptyRows(b, column) == {r \in RowRange : b[r][column] = EMPTY}

Largest(S) == CHOOSE m \in S : \A n \in S : n <= m

\* C2: on any board, a call of drop_piece with a column in range that has an
\* Empty cell returns True, writes the token into the Empty cell of that column
\* with the largest row index and changes no other cell.
C2_DropFillsLowestEmpty ==
    [][(/\ last'.op = "drop_piece"
        /\ last'.column \in ColRange
        /\ EmptyRows(board, last'.column) # {})
       => /\ last'.result = TRUE
          /\ board' = [board EXCEPT
                 ![Largest(EmptyRows(board, last'.column))][last'.column] = last'.token]
      ]_vars

\* a successful drop onto a board that does not obey gravity: the token sits
\* above the floor on a cell that was the lowest Empty one, with an Empty cell
\* higher up in the column still Empty and a token above that
C2_Witness ==
    /\ last.op = "drop_piece"
    /\ last.result = TRUE
    /\ last.column \in ColRange
    /\ board[ROWS - 1][last.column] # EMPTY
    /\ board[ROWS - 2][last.column] = last.token
    /\ board[ROWS - 3][last.column] = EMPTY
    /\ board[0][last.column] # EMPTY

\* =================================================================== C9
\* C9: on any board, a call of drop_piece with column < 0 or column >= COLUMNS
\* returns False and leaves every cell as it was.
C9_OutOfRangeRejected ==
    [][(/\ last'.op = "drop_piece"
        /\ (last'.column < 0 \/ last'.column >= COLUMNS))
       => /\ last'.result = FALSE
          /\ \A p \in Positions : board'[p[1]][p[2]] = board[p[1]][p[2]]
      ]_vars

\* drop_piece(board, -1, token) returned False although the last column, which
\* index -1 would address, has an Empty cell
C9_Witness ==
    /\ last.op = "drop_piece"
    /\ last.column = 0 - 1
    /\ last.result = FALSE
    /\ NonEmpty(board) # {}
    /\ EmptyRows(board, COLUMNS - 1) # {}

\* =================================================================== C8
ColumnFull(b, column) == \A r \in RowRange : b[r][column] # EMPTY

Height(b, column) == Cardinality({r \in RowRange : b[r][column] # EMPTY})

\* C8: in a sequence of drops on a fresh board, the k-th drop into a column
\* (the column holding k - 1 tokens, k <= ROWS) returns True and puts its token
\* in row ROWS - k, changing nothing else; a drop into a column that holds ROWS
\* tokens returns False and leaves the board as it was.
C8_ColumnFillsBottomUp ==
    [][(last'.op = "drop_piece" /\ last'.column \in ColRange)
       => LET k == Height(board, last'.column) + 1
          IN  IF k <= ROWS
              THEN /\ last'.result = TRUE
                   /\ board' = [board EXCEPT ![ROWS - k][last'.column] = last'.token]
              ELSE /\ last'.result = FALSE
                   /\ board' = board
      ]_vars

\* the drop after the ROWS-th into a column was refused; the column holds both
\* tokens
C8_Witness ==
    /\ last.op = "drop_piece"
    /\ last.column \in ColRange
    /\ last.result = FALSE
    /\ ColumnFull(board, last.column)
    /\ \E r1 \in RowRange : \E r2 \in RowRange :
           board[r1][last.column] # board[r2][last.column]

\* =================================================================== C3
BoardFull(b) == \A p \in Positions : b[p[1]][p[2]] # EMPTY

\* the token of the latest accepted move: 'X' moves first, so 'X' moved last
\* exactly when the board holds more 'X' than 'O'
LastMover(b) == IF CountOf(b, "X") > CountOf(b, "O") THEN "X" ELSE "O"

\* C3: whenever the board of a game holds a winning line the game has ended as
\* Won, never as Drawn, also when the winning move filled the last Empty cell;
\* the winner announced (the token of current_player_index) is the mover.
C3_WinBeforeDraw ==
    /\ has_winner(board) => state = "Won"
    /\ state = "Won" => PLAYER_TOKENS[current_player_index + 1] = LastMover(board)

\* the move that filled the board completed a line: the game is Won
C3_Witness ==
    /\ BoardFull(board)
    /\ has_winner(board)
    /\ state = "Won"

C5_StateMachine ==
    /\ state = "InProgress"
    /\ [][/\ state = "InProgress"
          /\ board' # board =>
                state' = IF has_winner(board') THEN "Won"
                         ELSE IF is_draw(board') THEN "Drawn"
                         ELSE "InProgress"
          /\ board' = board => state' = state
         ]_vars

\* both terminal states are reached: here Drawn
C5_Witness ==
    /\ state = "Drawn"
    /\ ~has_winner(board)
    /\ is_draw(board)

\* =================================================================== C6
\* C6: the board holds as many 'X' as 'O' or one more, and while the game is
\* InProgress the player to move is 'X' exactly when the counts are equal.
C6_Alternation ==
    /\ CountOf(board, "X") - CountOf(board, "O") \in {0, 1}
    /\ state = "InProgress" =>
           (current_player_index = 0 <=> CountOf(board, "X") = CountOf(board, "O"))

\* 'O' is to move after three accepted moves
C6_Witness ==
    /\ state = "InProgress"
    /\ current_player_index = 1
    /\ CountOf(board, "X") = 2
    /\ CountOf(board, "O") = 1

\* =================================================================== C7
\* C7: when the column chosen in a turn is full, the board, the player to move
\* and the state are as before the turn, the state is InProgress, and
\* drop_piece returned False for the token of the player to move.
C7_FullColumnRejected ==
    [][(last'.op = "drop_piece" /\ last'.column \in ColRange
            /\ ColumnFull(board, last'.column))
       => /\ last'.result = FALSE
          /\ last'.token = PLAYER_TOKENS[current_player_index + 1]
          /\ board' = board
          /\ current_player_index' = current_player_index
          /\ state = "InProgress"
          /\ state' = "InProgress"
      ]_vars

\* a turn whose column was full has been refused and the game goes on
C7_Witness ==
    /\ last.op = "drop_piece"
    /\ last.result = FALSE
    /\ last.column \in ColRange
    /\ ColumnFull(board, last.column)
    /\ state = "InProgress"

\* ================================================================== C10
\* C10: whenever is_draw holds of the board, has_winner does not (is_draw's
\* docstring: "the board is full and there is no winner").
C10_DrawImpliesNoWinner == is_draw(board) => ~has_winner(board)

\* ================================================================== C11
\* a Python bool read as a number: True == 1, False == 0
PyInt(v) == IF v = TRUE THEN 1 ELSE 0

\* the row of the topmost token of a column that obeys gravity
TopRow(b, column) == ROWS - Height(b, column)

\* C11 as stated: the value a successful drop returns is the index of the row
\* the token was placed in.
C11_ReturnsRowIndex ==
    (last.op = "drop_piece" /\ last.result = TRUE)
        => PyInt(last.result) = TopRow(board, last.column)

\* C11, amended: a successful drop returns True; the first drop on the empty
\* board, into any column in range, returns True and places its token in row
\* ROWS - 1, every other cell staying Empty.
C11_FirstDropBottomRow ==
    [][(/\ board = create_board
        /\ last'.op = "drop_piece"
        /\ last'.column \in ColRange)
       => /\ last'.result = TRUE
          /\ board'[ROWS - 1][last'.column] = last'.token
          /\ NonEmpty(board') = {<<ROWS - 1, last'.column>>}
      ]_vars

\* the first drop went into the last column and lies in the bottom row
C11_Witness ==
    /\ last.op = "drop_piece"
    /\ last.result = TRUE
    /\ last.column = COLUMNS - 1
    /\ NonEmpty(board) = {<<ROWS - 1, COLUMNS - 1>>}

\* ================================================================== C12
\* C12: the state of the loop follows from the board alone.  While the loop
\* waits for a move (InProgress) there is no winning line, row 0 has an Empty
\* cell and some column accepts a drop; the state is Won exactly when has_winner
\* holds, and Drawn exactly when has_winner does not hold and the board is full.
C12_OutcomeFromBoard ==
    /\ state = "InProgress" =>
           /\ ~has_winner(board)
           /\ \E c \in ColRange : board[0][c] = EMPTY
           /\ \E c \in ColRange :
                  drop_piece(board, c, PLAYER_TOKENS[current_player_index + 1]).ok
    /\ state = "Won" <=> has_winner(board)
    /\ state = "Drawn" <=> (~has_winner(board) /\ BoardFull(board))

\* the loop waits for a move with a single Empty cell left
C12_Witness ==
    /\ state = "InProgress"
    /\ Cardinality(NonEmpty(board)) = ROWS * COLUMNS - 1
    /\ ~has_winner(board)

\* ================================================================== C13
\* the grid is ROWS lists of COLUMNS cells, each Empty or a player's token
GridShape(b) ==
    /\ DOMAIN b = RowRange
    /\ \A r \in RowRange :
           /\ DOMAIN b[r] = ColRange
           /\ \A c \in ColRange : b[r][c] \in Tokens \cup {EMPTY}

\* C13: the grid keeps its shape and its three cell values; a cell that holds a
\* token keeps it in every step; and a step that changes the board (an accepted
\* move) changes one cell, from Empty to a token, so the number of non-Empty
\* cells grows by exactly one.
C13_CellsOnlyFill ==
    /\ [](GridShape(board))
    /\ [][/\ \A p \in Positions :
                 board[p[1]][p[2]] # EMPTY => board'[p[1]][p[2]] = board[p[1]][p[2]]
          /\ board' # board =>
                 Cardinality(NonEmpty(board')) = Cardinality(NonEmpty(board)) + 1
         ]_vars

\* a column holds a token of each player, one on top of the other
C13_Witness ==
    /\ GridShape(board)
    /\ \E c \in ColRange :
           /\ board[ROWS - 1][c] = "X"
           /\ board[ROWS - 2][c] = "O"
           /\ board[ROWS - 3][c] = "X"

\* ----------------- SpecInput: the loop with the entries typed at the prompt
\* what int(choice) makes of a typed line: a number, or ValueError (numeric
\* FALSE) for a line that is no integer
Entries ==
    {[numeric |-> TRUE, value |-> n] : n \in NumericEntries}
        \cup {[numeric |-> FALSE, value |-> 0]}

\* the value of ask_column_try for an entry that is asked again
Reprompt == NoColumn

\* ask_column accepting column == COLUMNS (0 <= column <= COLUMNS)
ask_column_try_inclusive(entry) ==
    IF entry.numeric
    THEN LET column == entry.value - 1
         IN  IF 0 <= column /\ column <= COLUMNS THEN column ELSE Reprompt
    ELSE Reprompt

\* one pass of ask_column's `while True`: the column returned, or Reprompt when
\* "Invalid input" is printed and the loop goes round
ask_column_try(entry) ==
    IF entry.numeric
    THEN LET column == entry.value - 1
         IN  IF 0 <= column /\ column < COLUMNS THEN column ELSE Reprompt
    ELSE Reprompt

\* an entry that ask_column refuses: only the prompt is repeated
InvalidEntry(entry) ==
    /\ state = "InProgress"
    /\ ask_column_try(entry) = Reprompt
    /\ last' = [op |-> "ask_column", column |-> Reprompt,
                token |-> PLAYER_TOKENS[current_player_index + 1],
                result |-> FALSE, entry |-> entry]
    /\ UNCHANGED <<board, current_player_index, state>>

\* an entry that ask_column returns as a column: the rest of the iteration
ValidEntry(entry) ==
    /\ ask_column_try(entry) # Reprompt
    /\ main_iteration(ask_column_try(entry))
    /\ Cardinality(NonEmpty(board')) <= MaxTurns
    /\ LET column == ask_column_try(entry)
           token == PLAYER_TOKENS[current_player_index + 1]
       IN  last' = [op |-> "drop_piece", column |-> column, token |-> token,
                    result |-> drop_piece(board, column, token).ok, entry |-> entry]

NextInput ==
    \/ \E entry \in Entries : InvalidEntry(entry)
    \/ \E entry \in Entries : ValidEntry(entry)

SpecInput == Init /\ [][NextInput]_vars

\* ================================================================== C14
\* C14: ask_column goes round on every entry that is no number or is not in
\* 1 .. COLUMNS, and returns the entered number minus one otherwise, a value in
\* 0 .. COLUMNS - 1; so every drop_piece call of the loop has a column in range
\* and, when it returns False, that column has no Empty cell.
C14_AskColumnInRange ==
    /\ last.op = "ask_column" =>
           (~last.entry.numeric
               \/ last.entry.value < 1 \/ last.entry.value > COLUMNS)
    /\ last.op = "drop_piece" =>
           /\ last.entry.numeric
           /\ last.entry.value \in 1 .. COLUMNS
           /\ last.column = last.entry.value - 1
           /\ last.column \in ColRange
           /\ last.result = FALSE => ColumnFull(board, last.column)

\* the entry COLUMNS + 1 was refused at the prompt while the first column is full
C14_WitnessReprompt ==
    /\ last.op = "ask_column"
    /\ last.entry.numeric
    /\ last.entry.value = COLUMNS + 1
    /\ ColumnFull(board, 0)

\* the entry 1 became column 0, which was full: "This column is full"
C14_Witness ==
    /\ last.op = "drop_piece"
    /\ last.entry.value = 1
    /\ last.column = 0
    /\ last.result = FALSE
    /\ ColumnFull(board, 0)

\* ================================================================== C15
\* C15: after any sequence of drops on a fresh board no column has an Empty
\* cell below a token: the tokens of a column are the rows ROWS - Height to
\* ROWS - 1.
C15_Gravity ==
    \A c \in ColRange :
        /\ \A r \in RowRange :
               board[r][c] # EMPTY =>
                   \A below \in RowRange : below > r => board[below][c] # EMPTY
        /\ {r \in RowRange : board[r][c] # EMPTY} = (ROWS - Height(board, c)) .. (ROWS - 1)

\* stacks of different heights stand next to an empty column after drops of
\* both tokens, the last of them refused
C15_Witness ==
    /\ Height(board, 0) = ROWS
    /\ Height(board, 1) = 2
    /\ Height(board, 2) = 0
    /\ CountOf(board, "O") >= 2
    /\ CountOf(board, "X") >= 2
    /\ last.op = "drop_piece"
    /\ last.result = FALSE

\* ================================================================== C16
\* the four-runs of b made of token t
FourRunsOf(b, t) == {L \in FourRuns(b) : \A q \in L : b[q[1]][q[2]] = t}

\* the cells in which two boards differ
Changed(b1, b2) == {p \in Positions : b1[p[1]][p[2]] # b2[p[1]][p[2]]}

OtherToken(t) == IF t = PLAYER_TOKENS[1] THEN PLAYER_TOKENS[2] ELSE PLAYER_TOKENS[1]

\* C16: when a move ends the game as Won, the player announced (the token of
\* current_player_index, which the loop leaves alone at `break`) is the token
\* just placed, the board holds a four-run of that token through the cell just
\* placed, and it holds no four-run of the other token.
C16_WinnerOwnsLine ==
    [][(state' = "Won" /\ board' # board)
       => LET t == PLAYER_TOKENS[current_player_index' + 1]
          IN  /\ \A p \in Changed(board, board') : board'[p[1]][p[2]] = t
              /\ \E L \in FourRunsOf(board', t) : Changed(board, board') \subseteq L
              /\ FourRunsOf(board', OtherToken(t)) = {}
      ]_vars

\* 'O' has won with a line while 'X' holds as many tokens as 'O'
C16_Witness ==
    /\ state = "Won"
    /\ PLAYER_TOKENS[current_player_index + 1] = "O"
    /\ FourRunsOf(board, "O") # {}
    /\ FourRunsOf(board, "X") = {}
    /\ CountOf(board, "X") = CountOf(board, "O")

\* ------------------- FairSpec: the loop with players who do make a move
\* A refused choice changes nothing (a stuttering step of Spec).  Weak fairness
\* of Next says that the player to move, for whom a column that is not full
\* exists, does not choose full columns for ever.
FairSpec == Spec /\ WF_vars(Next)

\* ================================================================== C17
\* the number of accepted moves so far: each one fills one cell
AcceptedMoves == Cardinality(NonEmpty(board))

\* C17: a game never has more than ROWS * COLUMNS accepted moves, every step
\* that changes anything is an accepted move (one more cell filled), and a game
\* whose players do not choose full columns for ever reaches Won or Drawn and
\* stays there.
C17_GameEnds ==
    /\ [](AcceptedMoves <= ROWS * COLUMNS)
    /\ [][Cardinality(NonEmpty(board')) = AcceptedMoves + 1]_vars
    /\ <>[](state \in {"Won", "Drawn"})

\* a game that took all ROWS * COLUMNS moves
C17_Witness ==
    /\ AcceptedMoves = ROWS * COLUMNS
    /\ state \in {"Won", "Drawn"}

====
